---- MODULE Spec2Model ----
(***************************************************************************)
(* Model of src/index.js: the run() function of the Helm gh-pages action. *)
(* Strings that the code inspects character by character (refs, branch    *)
(* names, sed scripts, README lines) are sequences of one-character       *)
(* strings; a README document is a sequence of such lines.                *)
(***************************************************************************)
EXTENDS Integers, Sequences, FiniteSets, TLC

VARIABLES
    accessToken,      \* core.getInput('access-token')
    deployBranch,     \* core.getInput('deploy-branch')
    ref,              \* github.context.ref
    readmePreamble,   \* core.getInput('readme-preamble')
    remoteExists,     \* README.md exists on the target branch of the remote
    remoteReadme,     \* its lines
    pc,               \* position of run()
    sourceBranch,     \* line 31
    preamble,         \* lines 32-33
    chartDirectories, \* line 64
    chartIdx,         \* position of the for loop of line 65
    readmeExists,     \* ./output/README.md exists
    readme,           \* its lines
    log,              \* the exec.exec calls made so far, with their exit codes
    error,            \* the exception caught at line 127, <<>> when none
    failures          \* the messages passed to core.setFailed

vars == <<accessToken, deployBranch, ref, readmePreamble, remoteExists,
          remoteReadme, pc, sourceBranch, preamble, chartDirectories,
          chartIdx, readmeExists, readme, log, error, failures>>

inputs == <<accessToken, deployBranch, ref, readmePreamble>>

(***************************************************************************)
(* Bounds                                                                  *)
(***************************************************************************)
MaxLines == 2      \* lines of the README on the remote
MaxCharts == 2     \* chart directories under charts-folder

(***************************************************************************)
(* String helpers                                                          *)
(***************************************************************************)
Min(S) == CHOOSE x \in S : \A y \in S : x <= y

\* positions at which the literal sub occurs in s
Occurrences(sub, s) ==
    { p \in 1..(Len(s) - Len(sub) + 1) :
        \A k \in 1..Len(sub) : s[p + k - 1] = sub[k] }

\* String.prototype.replace(sub, '') : removes the first occurrence only
StrRemoveFirst(s, sub) ==
    IF Occurrences(sub, s) = {} THEN s
    ELSE LET p == Min(Occurrences(sub, s))
         IN  SubSeq(s, 1, p - 1) \o SubSeq(s, p + Len(sub), Len(s))

\* a basic regular expression made of ordinary characters and '.',
\* searched anywhere in the line as sed's /re/ address does
RegexFound(re, line) ==
    \E p \in 1..(Len(line) - Len(re) + 1) :
        \A k \in 1..Len(re) : re[k] = "." \/ line[p + k - 1] = re[k]

(***************************************************************************)
(* Values of the environment                                               *)
(***************************************************************************)
RefsTags == <<"r","e","f","s","/","t","a","g","s","/">>
RefsHeads == <<"r","e","f","s","/","h","e","a","d","s","/">>
Master == <<"m","a","s","t","e","r">>
GhPages == <<"g","h","-","p","a","g","e","s">>

Tags == { <<"v","1">>, <<"v","1",".","0">>, <<"v","1","x","0">>, <<"v","2">> }
Branches == { Master, GhPages }
Refs == { RefsTags \o t : t \in Tags } \cup { RefsHeads \o b : b \in Branches }

\* github.context.repo.owner / github.context.repo.repo
baseRepo == <<"o","/","r">>

NoTokenMessage == "No personal access token found."
ConstAssignMessage == "Assignment to constant variable."
ExecFailedMessage == "The process failed with a non-zero exit code"
FsMessage == "ENOENT"

\* line 102
releaseURI(src) ==
    <<"h","t","t","p","s",":","/","/","g","i","t","h","u","b",".","c","o","m","/">>
    \o baseRepo
    \o <<"/","r","e","l","e","a","s","e","s","/","t","a","g","/">> \o src

\* line 103
releaseText(src) ==
    <<"*"," ","[">> \o src \o <<"]","(">> \o releaseURI(src) \o <<")">>

Heading == <<"#"," ","H","e","l","m">>
Bare == <<"*">>
Emphasis == <<"*","n","*">>
Prose == <<"s","e","e"," ","v","2">>

Lines == { Heading, Bare, Emphasis, Prose } \cup { releaseText(t) : t \in Tags }

RECURSIVE Docs(_)
Docs(n) ==
    IF n = 0 THEN { <<>> }
    ELSE Docs(n - 1) \cup
         { Append(d, l) : d \in { e \in Docs(n - 1) : Len(e) = n - 1 }, l \in Lines }

ChartNames == <<"chart1", "chart2", "chart3">>

(***************************************************************************)
(* The four sed edits of README.md, lines 94-112                           *)
(***************************************************************************)
\* line 96: the script `/${sourceBranch}/d`
DedupScript(src) == <<"/">> \o src \o <<"/", "d">>

\* sed reads the address up to the second '/', the command is what follows
ScriptRegex(script) ==
    SubSeq(script, 2, Min(Occurrences(<<"/">>, Tail(script))))

ScriptCommand(script) ==
    SubSeq(script, Min(Occurrences(<<"/">>, Tail(script))) + 2, Len(script))

\* a tag or ref holding a '/' leaves text after the command: sed rejects it
DedupScriptValid(script) ==
    /\ ScriptRegex(script) # <<>>
    /\ ScriptCommand(script) = <<"d">>

\* sed /re/d : every line in which re is found is deleted
SedDelete(script, lines) ==
    LET Keep(l) == ~RegexFound(ScriptRegex(script), l)
    IN  SelectSeq(lines, Keep)

\* line 99: the JavaScript literal '$a\*' is the string $a*
AnchorScript == <<"$", "a", "*">>

\* sed $a* : a line * is appended after the last line; no last line, no append
SedAppendLast(lines) ==
    IF lines = <<>> THEN <<>> ELSE Append(lines, <<"*">>)

\* line 104
regexSearch == <<"^", "\\", "(", "\\", "*", ".", "*", "\\", ")">>

\* line 105
regexReplace(src) ==
    <<"s", ",", ",">> \o releaseText(src) \o <<"\\", "n", "\\", "1", ",">>

\* line 107
InsertScript(src) == <<"0", ",", "/">> \o regexSearch \o <<"/">> \o regexReplace(src)

\* s,,replacement, : a ',' inside the replacement ends it early
InsertScriptValid(src) == Occurrences(<<",">>, releaseText(src)) = {}

\* regexSearch ^\(\*.*\) matches a line that begins with an asterisk
StartsWithStar(l) == Len(l) >= 1 /\ l[1] = "*"

\* the replacement written as \1\ntext : the text goes below the match
SedInsert_below(src, lines) ==
    LET hits == { k \in 1..Len(lines) : StartsWithStar(lines[k]) }
    IN  IF hits = {} THEN lines
        ELSE LET k == Min(hits)
             IN  SubSeq(lines, 1, k) \o <<releaseText(src)>>
                 \o SubSeq(lines, k + 1, Len(lines))

\* sed 0,/re/s,,text\n\1, : the first line matching re becomes text, newline,
\* and the line itself; no other line is changed
SedInsert(src, lines) ==
    LET hits == { k \in 1..Len(lines) : StartsWithStar(lines[k]) }
    IN  IF hits = {} THEN lines
        ELSE LET k == Min(hits)
             IN  SubSeq(lines, 1, k - 1) \o <<releaseText(src)>>
                 \o SubSeq(lines, k, Len(lines))

\* line 112: the JavaScript literal '/^\*$/d' is the string /^*$/d
StripScript == <<"/", "^", "*", "$", "/", "d">>

\* only a bare bullet at the end of the document is deleted
SedStrip_trailing(lines) ==
    IF lines # <<>> /\ lines[Len(lines)] = <<"*">>
    THEN SubSeq(lines, 1, Len(lines) - 1)
    ELSE lines

\* sed /^*$/d : every line that is exactly * is deleted
SedStrip(lines) ==
    LET Keep(l) == l # <<"*">>
    IN  SelectSeq(lines, Keep)

\* lines 94-112 on a README that exists, every sed succeeding
LedgerUpdate(src, lines) ==
    SedStrip(SedInsert(src, SedAppendLast(SedDelete(DedupScript(src), lines))))

(***************************************************************************)
(* run(), lines 18-130                                                     *)
(***************************************************************************)
Init ==
    /\ accessToken \in { "", "token" }
    /\ deployBranch \in { <<>> } \cup Branches
    /\ ref \in Refs
    /\ readmePreamble \in { <<>>, Heading }
    /\ remoteExists \in BOOLEAN
    /\ remoteReadme \in Docs(MaxLines)
    /\ (~remoteExists => remoteReadme = <<>>)
    /\ pc = "start"
    /\ sourceBranch = <<>>
    /\ preamble = <<>>
    /\ chartDirectories = <<>>
    /\ chartIdx = 0
    /\ readmeExists = FALSE
    /\ readme = <<>>
    /\ log = <<>>
    /\ error = <<>>
    /\ failures = <<>>

\* exec.exec with ignoreReturnCode: a non-zero exit code is not thrown
Exec_ignoreReturnCode(cmd, arg, codes, next) ==
    \E rc \in codes :
        /\ log' = Append(log, [cmd |-> cmd, arg |-> arg, rc |-> rc])
        /\ pc' = next
        /\ error' = error

\* exec.exec rejects when the process exits non-zero; the rejection is thrown
\* at the await and caught at line 127
Exec(cmd, arg, codes, next) ==
    \E rc \in codes :
        /\ log' = Append(log, [cmd |-> cmd, arg |-> arg, rc |-> rc])
        /\ IF rc = 0
           THEN pc' = next /\ error' = error
           ELSE pc' = "catch" /\ error' = <<ExecFailedMessage>>

\* a thrown exception leaves the try block for the catch clause
Throw(message) ==
    /\ pc' = "catch"
    /\ error' = <<message>>

ExitCodes == { 0, 1 }

\* lines 20-26
GetAccessToken ==
    /\ pc = "start"
    /\ IF accessToken = ""
       THEN /\ failures' = Append(failures, NoTokenMessage)
            /\ pc' = "no_token"
       ELSE /\ failures' = failures
            /\ pc' = "deploy_branch"
    /\ UNCHANGED <<inputs, remoteExists, remoteReadme, sourceBranch, preamble,
                   chartDirectories, chartIdx, readmeExists, readme, log, error>>

\* lines 28-29: deployBranch is declared const, the assignment of the
\* fallback 'master' throws a TypeError
GetDeployBranch ==
    /\ pc = "deploy_branch"
    /\ IF deployBranch = <<>>
       THEN Throw(ConstAssignMessage)
       ELSE pc' = "source_branch" /\ error' = error
    /\ UNCHANGED <<inputs, remoteExists, remoteReadme, sourceBranch, preamble,
                   chartDirectories, chartIdx, readmeExists, readme, log, failures>>

\* lines 31-35
GetSourceBranch ==
    /\ pc = "source_branch"
    /\ sourceBranch' = StrRemoveFirst(ref, RefsTags)
    /\ preamble' = IF readmePreamble = <<>>
                   THEN <<"#"," ","H","e","l","m"," ","R","e","p","o","s","i","t","o","r","y">>
                   ELSE readmePreamble
    /\ pc' = "guard"
    /\ UNCHANGED <<inputs, remoteExists, remoteReadme, chartDirectories,
                   chartIdx, readmeExists, readme, log, error, failures>>

\* the guard compares with the bare branch name
IsDeployRef_bare(r, branch) == r = branch

\* line 37
IsDeployRef(r, branch) == r = RefsHeads \o branch

\* lines 37-41
DeployGuard ==
    /\ pc = "guard"
    /\ pc' = IF IsDeployRef(ref, deployBranch) THEN "nothing_to_deploy" ELSE "clone"
    /\ UNCHANGED <<inputs, remoteExists, remoteReadme, sourceBranch, preamble,
                   chartDirectories, chartIdx, readmeExists, readme, log, error,
                   failures>>

\* lines 49-51: the working copy ./output holds the target branch's files
GitClone ==
    /\ pc = "clone"
    /\ Exec("git clone", deployBranch, ExitCodes, "config_name")
    /\ IF pc' = "config_name"
       THEN readmeExists' = remoteExists /\ readme' = remoteReadme
       ELSE UNCHANGED <<readmeExists, readme>>
    /\ UNCHANGED <<inputs, remoteExists, remoteReadme, sourceBranch, preamble,
                   chartDirectories, chartIdx, failures>>

\* lines 52-54
GitConfigName ==
    /\ pc = "config_name"
    /\ Exec("git config user.name", <<>>, ExitCodes, "config_email")
    /\ UNCHANGED <<inputs, remoteExists, remoteReadme, sourceBranch, preamble,
                   chartDirectories, chartIdx, readmeExists, readme, failures>>

\* lines 55-59
GitConfigEmail ==
    /\ pc = "config_email"
    /\ Exec("git config user.email", <<>>, ExitCodes, "helm_init")
    /\ UNCHANGED <<inputs, remoteExists, remoteReadme, sourceBranch, preamble,
                   chartDirectories, chartIdx, readmeExists, readme, failures>>

\* lines 61-62
HelmInit ==
    /\ pc = "helm_init"
    /\ Exec("helm init", <<>>, ExitCodes, "list_charts")
    /\ UNCHANGED <<inputs, remoteExists, remoteReadme, sourceBranch, preamble,
                   chartDirectories, chartIdx, readmeExists, readme, failures>>

\* lines 10-16 and 64: readdirSync throws when charts-folder cannot be read
getDirectories ==
    /\ pc = "list_charts"
    /\ \/ \E n \in 0..MaxCharts :
            /\ chartDirectories' = SubSeq(ChartNames, 1, n)
            /\ chartIdx' = IF n = 0 THEN 0 ELSE 1
            /\ pc' = IF n = 0 THEN "index" ELSE "dependency_update"
            /\ error' = error
       \/ /\ Throw(FsMessage)
          /\ UNCHANGED <<chartDirectories, chartIdx>>
    /\ UNCHANGED <<inputs, remoteExists, remoteReadme, sourceBranch, preamble,
                   readmeExists, readme, log, failures>>

\* lines 66-71
HelmDependencyUpdate ==
    /\ pc = "dependency_update"
    /\ Exec("helm dependency update", <<chartDirectories[chartIdx]>>, ExitCodes,
            "package")
    /\ UNCHANGED <<inputs, remoteExists, remoteReadme, sourceBranch, preamble,
                   chartDirectories, chartIdx, readmeExists, readme, failures>>

\* the loop stops after the first directory
AfterPackage_break(idx, dirs) == "index"

\* line 65: the for loop goes on to the next directory, or ends
AfterPackage(idx, dirs) ==
    IF idx < Len(dirs) THEN "dependency_update" ELSE "index"

\* lines 73-79
HelmPackage ==
    /\ pc = "package"
    /\ Exec("helm package", <<chartDirectories[chartIdx]>>, ExitCodes,
            AfterPackage(chartIdx, chartDirectories))
    /\ chartIdx' = IF pc' = "dependency_update" THEN chartIdx + 1 ELSE chartIdx
    /\ UNCHANGED <<inputs, remoteExists, remoteReadme, sourceBranch, preamble,
                   chartDirectories, readmeExists, readme, failures>>

\* lines 84-85
HelmRepoIndex ==
    /\ pc = "index"
    /\ Exec("helm repo index", <<>>, ExitCodes, "cname")
    /\ UNCHANGED <<inputs, remoteExists, remoteReadme, sourceBranch, preamble,
                   chartDirectories, chartIdx, readmeExists, readme, failures>>

\* lines 87-92: ioUtil.exists and io.cp run no process, and may throw
CopyCname ==
    /\ pc = "cname"
    /\ \/ pc' = "sed_dedup" /\ error' = error
       \/ Throw(FsMessage)
    /\ UNCHANGED <<inputs, remoteExists, remoteReadme, sourceBranch, preamble,
                   chartDirectories, chartIdx, readmeExists, readme, log, failures>>

\* the exit codes sed -i can give: it cannot read a missing file, and it
\* rejects a script it cannot parse
SedCodes(exists, valid) == IF exists /\ valid THEN ExitCodes ELSE { 1 }

\* lines 95-98
SedDedup ==
    /\ pc = "sed_dedup"
    /\ Exec("sed -i", DedupScript(sourceBranch),
            SedCodes(readmeExists, DedupScriptValid(DedupScript(sourceBranch))),
            "sed_anchor")
    /\ readme' = IF pc' = "sed_anchor"
                 THEN SedDelete(DedupScript(sourceBranch), readme)
                 ELSE readme
    /\ UNCHANGED <<inputs, remoteExists, remoteReadme, sourceBranch, preamble,
                   chartDirectories, chartIdx, readmeExists, failures>>

\* line 99
SedAnchor ==
    /\ pc = "sed_anchor"
    /\ Exec("sed -i", AnchorScript, SedCodes(readmeExists, TRUE), "sed_insert")
    /\ readme' = IF pc' = "sed_insert" THEN SedAppendLast(readme) ELSE readme
    /\ UNCHANGED <<inputs, remoteExists, remoteReadme, sourceBranch, preamble,
                   chartDirectories, chartIdx, readmeExists, failures>>

\* lines 102-109
SedInsertRelease ==
    /\ pc = "sed_insert"
    /\ Exec("sed -i", InsertScript(sourceBranch),
            SedCodes(readmeExists, InsertScriptValid(sourceBranch)), "sed_strip")
    /\ readme' = IF pc' = "sed_strip" THEN SedInsert(sourceBranch, readme) ELSE readme
    /\ UNCHANGED <<inputs, remoteExists, remoteReadme, sourceBranch, preamble,
                   chartDirectories, chartIdx, readmeExists, failures>>

\* line 112
SedStripBare ==
    /\ pc = "sed_strip"
    /\ Exec("sed -i", StripScript, SedCodes(readmeExists, TRUE), "add")
    /\ readme' = IF pc' = "add" THEN SedStrip(readme) ELSE readme
    /\ UNCHANGED <<inputs, remoteExists, remoteReadme, sourceBranch, preamble,
                   chartDirectories, chartIdx, readmeExists, failures>>

\* line 115
GitAdd ==
    /\ pc = "add"
    /\ Exec("git add", <<>>, ExitCodes, "commit")
    /\ UNCHANGED <<inputs, remoteExists, remoteReadme, sourceBranch, preamble,
                   chartDirectories, chartIdx, readmeExists, readme, failures>>

\* lines 116-120
GitCommit ==
    /\ pc = "commit"
    /\ Exec("git commit", <<>>, ExitCodes, "push")
    /\ UNCHANGED <<inputs, remoteExists, remoteReadme, sourceBranch, preamble,
                   chartDirectories, chartIdx, readmeExists, readme, failures>>

\* lines 121-126: a successful push puts the working copy on the target branch
GitPush ==
    /\ pc = "push"
    /\ Exec("git push", deployBranch, ExitCodes, "done")
    /\ IF pc' = "done"
       THEN remoteExists' = readmeExists /\ remoteReadme' = readme
       ELSE UNCHANGED <<remoteExists, remoteReadme>>
    /\ UNCHANGED <<inputs, sourceBranch, preamble, chartDirectories, chartIdx,
                   readmeExists, readme, failures>>

\* lines 127-129
Catch ==
    /\ pc = "catch"
    /\ failures' = Append(failures, error[1])
    /\ pc' = "failed"
    /\ UNCHANGED <<inputs, remoteExists, remoteReadme, sourceBranch, preamble,
                   chartDirectories, chartIdx, readmeExists, readme, log, error>>

Next ==
    \/ GetAccessToken
    \/ GetDeployBranch
    \/ GetSourceBranch
    \/ DeployGuard
    \/ GitClone
    \/ GitConfigName
    \/ GitConfigEmail
    \/ HelmInit
    \/ getDirectories
    \/ HelmDependencyUpdate
    \/ HelmPackage
    \/ HelmRepoIndex
    \/ CopyCname
    \/ SedDedup
    \/ SedAnchor
    \/ SedInsertRelease
    \/ SedStripBare
    \/ GitAdd
    \/ GitCommit
    \/ GitPush
    \/ Catch

Spec == Init /\ [][Next]_vars

(***************************************************************************)
(* Vocabulary of the properties                                            *)
(***************************************************************************)
\* the four sed edits are done and the result is not yet pushed: readme is
\* the updated ledger and remoteReadme still the ledger it was made from
Updated == pc \in { "add", "commit", "push" }

\* an entry line has the form * [label](uri)
IsEntryLine(l) ==
    /\ Len(l) >= 6
    /\ SubSeq(l, 1, 3) = <<"*", " ", "[">>
    /\ Occurrences(<<"]", "(">>, l) # {}
    /\ l[Len(l)] = ")"

EntryLabel(l) == SubSeq(l, 4, Min(Occurrences(<<"]", "(">>, l)) - 1)

EntryLines(doc) == SelectSeq(doc, IsEntryLine)

EntriesFor(doc, tag) ==
    LET Test(l) == IsEntryLine(l) /\ EntryLabel(l) = tag
    IN  SelectSeq(doc, Test)

\* the longest prefix of doc whose lines all fail Stop
LeadingRun(doc, Stop(_)) ==
    LET hits == { k \in 1..Len(doc) : Stop(doc[k]) }
    IN  IF hits = {} THEN doc ELSE SubSeq(doc, 1, Min(hits) - 1)

IsPrefix(s, t) == Len(s) <= Len(t) /\ SubSeq(t, 1, Len(s)) = s

Succeeded(cmd) == \E k \in 1..Len(log) : log[k].cmd = cmd /\ log[k].rc = 0

Executed(cmd) == \E k \in 1..Len(log) : log[k].cmd = cmd

(***************************************************************************)
(* Properties                                                              *)
(***************************************************************************)

\* C1: once the ledger is updated it holds exactly one entry line whose
\* label is the tag, and so does the result of updating it again with the
\* same entry.
C1_ExactlyOneEntry ==
    Updated =>
        /\ Len(EntriesFor(readme, sourceBranch)) = 1
        /\ Len(EntriesFor(LedgerUpdate(sourceBranch, readme), sourceBranch)) = 1

\* C2 as stated: an inserted entry line sits directly after the ledger's
\* leading run of lines that are not entry lines (emphasised text that
\* begins with an asterisk included), all of which remain above it.
C2_AfterLeadingNonEntries ==
    (Updated /\ \E k \in 1..Len(readme) : readme[k] = releaseText(sourceBranch)) =>
        LET lead == LeadingRun(remoteReadme, IsEntryLine)
        IN  /\ Len(readme) > Len(lead)
            /\ SubSeq(readme, 1, Len(lead)) = lead
            /\ readme[Len(lead) + 1] = releaseText(sourceBranch)

\* C2 amended: an inserted entry line is the first line of the output that
\* begins with an asterisk, and the lines above it are exactly the leading
\* lines that do not begin with an asterisk of the ledger as the
\* deduplication pass leaves it; a ledger holding only a heading line yields
\* the heading followed by the one new entry line.
C2_BeforeFirstStarLine ==
    /\ (Updated /\ \E k \in 1..Len(readme) : readme[k] = releaseText(sourceBranch)) =>
          LET kept == SedDelete(DedupScript(sourceBranch), remoteReadme)
              lead == LeadingRun(kept, StartsWithStar)
          IN  /\ Len(readme) > Len(lead)
              /\ SubSeq(readme, 1, Len(lead)) = lead
              /\ readme[Len(lead) + 1] = releaseText(sourceBranch)
              /\ \A k \in 1..Len(lead) : ~StartsWithStar(readme[k])
    /\ (Updated /\ remoteReadme = <<Heading>>) =>
          readme = <<Heading, releaseText(sourceBranch)>>

\* an entry was inserted below a line that begins with an asterisk or was
\* deduplicated away, and below a heading
C2_Witness ==
    /\ Updated
    /\ Len(remoteReadme) = 2
    /\ remoteReadme[1] = Heading
    /\ remoteReadme[2] = Emphasis
    /\ readme = <<Heading, releaseText(sourceBranch), Emphasis>>

\* C3: when the ledger has entries and the new tag is the label of none of
\* them, the entry lines of the updated ledger are the new entry followed by
\* the existing entries, all kept and in their order.
C3_EntriesKept ==
    (/\ Updated
     /\ EntryLines(remoteReadme) # <<>>
     /\ EntriesFor(remoteReadme, sourceBranch) = <<>>) =>
        EntryLines(readme) = <<releaseText(sourceBranch)>> \o EntryLines(remoteReadme)

\* C4: the updated ledger holds no line that is exactly a bare bullet, and
\* the inserted entry line is not one.
C4_NoBareBullet ==
    /\ (Updated \/ pc = "done") => \A k \in 1..Len(readme) : readme[k] # <<"*">>
    /\ pc = "done" => \A k \in 1..Len(remoteReadme) : remoteReadme[k] # <<"*">>
    /\ releaseText(sourceBranch) # <<"*">>

\* a ledger that held a bare bullet was updated
C4_Witness ==
    /\ Updated
    /\ \E k \in 1..Len(remoteReadme) : remoteReadme[k] = <<"*">>
    /\ \E k \in 1..Len(readme) : readme[k] = releaseText(sourceBranch)

\* C5: a README.md that is missing or has no lines does not make a sed edit
\* fail, and the ledger written back is the new entry line, below the
\* preamble if it was seeded.
C5_MissingLedgerGetsEntry ==
    /\ (pc = "sed_dedup" /\ DedupScriptValid(DedupScript(sourceBranch))) =>
          0 \in SedCodes(readmeExists, TRUE)
    /\ (Updated /\ remoteReadme = <<>>) =>
          readme \in { <<releaseText(sourceBranch)>>,
                       <<preamble, releaseText(sourceBranch)>> }

\* C6: a missing credential, a command that exits non-zero or any thrown
\* exception ends the run with exactly one failure message; nothing is
\* executed after the failing step and the push is not completed; without a
\* credential no command is executed.
C6_SingleFailureStopsRun ==
    /\ Len(failures) <= 1
    /\ accessToken = "" => log = <<>>
    /\ (accessToken = "" /\ pc # "start") => pc = "no_token" /\ failures = <<NoTokenMessage>>
    /\ \A k \in 1..Len(log) :
          log[k].rc # 0 => k = Len(log) /\ pc \in { "catch", "failed" }
    /\ error # <<>> => pc \in { "catch", "failed" }
    /\ pc = "failed" => failures = error
    /\ failures # <<>> => pc \in { "no_token", "failed" }
    /\ (error # <<>> \/ failures # <<>>) => ~Succeeded("git push")

\* a command failed in the middle of the run and the failure was reported
C6_Witness ==
    /\ pc = "failed"
    /\ Len(log) >= 2
    /\ log[Len(log)].rc # 0
    /\ failures = <<ExecFailedMessage>>

\* C7: with a credential, a ref that is refs/heads/ followed by the
\* configured target branch ends the run before any command is executed and
\* without a failure; no other ref is stopped by the guard.
C7_SelfDeployGuard ==
    /\ (accessToken # "" /\ ref = RefsHeads \o deployBranch) =>
          /\ log = <<>>
          /\ failures = <<>>
          /\ error = <<>>
          /\ pc \in { "start", "deploy_branch", "source_branch", "guard",
                      "nothing_to_deploy" }
    /\ pc = "nothing_to_deploy" => ref = RefsHeads \o deployBranch

\* the guard ended a run
C7_Witness ==
    /\ pc = "nothing_to_deploy"
    /\ accessToken # ""
    /\ ref = RefsHeads \o deployBranch

\* C8: with a credential and no target-branch input the run goes on with the
\* branch master: no failure comes from the missing input, the guard
\* compares the ref against master, and clone and push name master.
C8_FallbackBranch ==
    (accessToken # "" /\ deployBranch = <<>>) =>
        /\ error # <<ConstAssignMessage>>
        /\ pc = "nothing_to_deploy" => ref = RefsHeads \o Master
        /\ ref = RefsHeads \o Master =>
              pc \in { "start", "deploy_branch", "source_branch", "guard",
                       "nothing_to_deploy" }
        /\ \A k \in 1..Len(log) :
              log[k].cmd \in { "git clone", "git push" } => log[k].arg = Master

\* the steps of a complete run, in the order of the code
ExpectedSteps(dirs, src, branch) ==
    LET Chart(k) == << <<"helm dependency update", <<dirs[k]>> >>,
                       <<"helm package", <<dirs[k]>> >> >>
        Charts[k \in 0..Len(dirs)] ==
            IF k = 0 THEN <<>> ELSE Charts[k - 1] \o Chart(k)
    IN  << <<"git clone", branch>>,
           <<"git config user.name", <<>> >>,
           <<"git config user.email", <<>> >>,
           <<"helm init", <<>> >> >>
        \o Charts[Len(dirs)]
        \o << <<"helm repo index", <<>> >>,
              <<"sed -i", <<"/">> \o src \o <<"/", "d">> >>,
              <<"sed -i", <<"$", "a", "*">> >>,
              <<"sed -i", <<"0", ",", "/", "^", "\\", "(", "\\", "*", ".", "*", "\\", ")", "/",
                            "s", ",", ",">> \o releaseText(src)
                            \o <<"\\", "n", "\\", "1", ",">> >>,
              <<"sed -i", <<"/", "^", "*", "$", "/", "d">> >>,
              <<"git add", <<>> >>,
              <<"git commit", <<>> >>,
              <<"git push", branch>> >>

\* C9: the commands executed are a prefix of the one fixed order, so each is
\* executed at most once, and only the last one may have failed; a commit
\* comes after every chart is packaged and the four sed passes are done, a
\* push after the commit.
C9_FixedOrder ==
    /\ IsPrefix([k \in 1..Len(log) |-> <<log[k].cmd, log[k].arg>>],
                ExpectedSteps(chartDirectories, sourceBranch, deployBranch))
    /\ \A k \in 1..(Len(log) - 1) : log[k].rc = 0
    /\ Executed("git push") => Succeeded("git commit")
    /\ Executed("git commit") =>
          /\ \A d \in 1..Len(chartDirectories) :
                \E k \in 1..Len(log) :
                    /\ log[k] = [cmd |-> "helm package", arg |-> <<chartDirectories[d]>>, rc |-> 0]
                    /\ log[k - 1] = [cmd |-> "helm dependency update",
                                     arg |-> <<chartDirectories[d]>>, rc |-> 0]
          /\ Cardinality({ k \in 1..Len(log) : log[k].cmd = "sed -i" /\ log[k].rc = 0 }) = 4

\* a run went through every step, with the most chart directories
C9_Witness ==
    /\ pc = "done"
    /\ Len(chartDirectories) = MaxCharts
    /\ Len(log) = 12 + 2 * MaxCharts
    /\ log[Len(log)] = [cmd |-> "git push", arg |-> deployBranch, rc |-> 0]

\* C10: updating the updated ledger again with the same entry changes
\* nothing.
C10_Idempotent ==
    Updated => LedgerUpdate(sourceBranch, readme) = readme

====
